---- MODULE Spec2Model ----
(***************************************************************************)
(* Bronx geographic ETL pipeline (scripts/build_bronx_crosswalk.ts and the *)
(* phase classes it drives): download and cache of the three sources,      *)
(* ZIP-to-tract mapping, tract -> NTA spatial join, merge, neighborhood    *)
(* clustering, output assembly and validation.                             *)
(*                                                                         *)
(* Text is modelled as a sequence of character codes: 0..9 are the digits  *)
(* '0'..'9', 10..35 the letters 'A'..'Z', 36 is '-'.  The empty sequence   *)
(* is the empty string, which also stands for an absent CSV column or an   *)
(* absent property (both are falsy in the source).                         *)
(* Weights are numbers scaled by ONE (ONE stands for 1.0).                 *)
(***************************************************************************)
EXTENDS Integers, Sequences, FiniteSets, TLC

VARIABLES
  pc,                   \* where PipelineMaster.run stands: <<"begin" | "body" | "catch" | "exited", phase>>
  network,              \* what the servers answer: for each URL the responses along its redirect chain
  cache,                \* data/raw: the files phase 1 saves and the phases 2 and 3 load
  cacheAge,             \* age in days of each downloaded file's mtime
  downloads,            \* what each download of phase 1 returned or threw, with the requests it issued
  statuses,             \* PipelineMaster.statuses
  exitCode,             \* process exit status, NOT_EXITED while running
  zipToTracts,          \* PipelineMaster.zipToTracts
  tractToNta,           \* PipelineMaster.tractToNta
  neighborhoodClusters, \* PipelineMaster.neighborhoodClusters
  outputDir,            \* data/geo: the files phase 5 writes
  skippedInvalid,       \* number in the mapper's "Skipped N invalid records" warning
  clock,                \* wall-clock time: the number of launches of the pipeline so far
  earlier,              \* data/geo as the previous launch on the same cache left it
  checkedRows,          \* Validator.validateZipToTractOutput called on its own: the rows passed
  validation,           \* ... and the ValidationResult it returned
  geoMetrics,           \* suppressionAgent: the metrics object of one geography
  geoCellCounts,        \* ... the cellCounts object passed with it
  suppression,          \* ... what applySuppressionToGeography returned
  completeness          \* ... what validateSuppressionComplete returned

\* the pipeline run
runVars == <<pc, network, cache, cacheAge, downloads, statuses, exitCode, zipToTracts,
             tractToNta, neighborhoodClusters, outputDir, skippedInvalid>>

\* the library functions called on their own
callVars == <<checkedRows, validation, geoMetrics, geoCellCounts, suppression, completeness>>

vars == <<runVars, clock, earlier, callVars>>

----------------------------------------------------------------------------
(* Bounds of the explored inputs *)

MaxRows == 2      \* rows in the cached weight table
MaxTracts == 2    \* features in the cached tract collection
MaxNtas == 2      \* features in the cached neighborhood collection
MaxHops == 2      \* redirects a server chain answers before its final response
MaxMetrics == 2   \* metrics of the geography passed to the suppression agent

----------------------------------------------------------------------------
(* Strings *)

DASH == 36
ONE == 10
NULL == 0 - 1000
NOT_EXITED == 0 - 1

Min(S) == CHOOSE x \in S : \A y \in S : x <= y

IsDigits(s) == \A i \in 1..Len(s) : s[i] \in 0..9

padStart(s, n, ch) ==
  IF Len(s) >= n THEN s ELSE [i \in 1..(n - Len(s)) |-> ch] \o s

substring(s, from) == SubSeq(s, from + 1, Len(s))

startsWith(s, p) == Len(s) >= Len(p) /\ SubSeq(s, 1, Len(p)) = p

localeCompare(a, b) ==
  LET n == IF Len(a) < Len(b) THEN Len(a) ELSE Len(b)
      diff == {i \in 1..n : a[i] # b[i]}
  IN  IF diff = {}
        THEN (IF Len(a) < Len(b) THEN 0 - 1 ELSE IF Len(a) > Len(b) THEN 1 ELSE 0)
        ELSE (IF a[Min(diff)] < b[Min(diff)] THEN 0 - 1 ELSE 1)

includes(list, x) == \E i \in 1..Len(list) : list[i] = x

\* a || b on strings: the first non-empty operand
OrStr(a, b) == IF a # <<>> THEN a ELSE b

Range(s) == {s[i] : i \in 1..Len(s)}

\* Array.prototype.sort with comparator cmp: stable, so an element lands
\* after the elements that compare smaller and the equal ones that precede it
sortSeq(seq, cmp(_, _)) ==
  LET n == Len(seq)
      before(j, i) == cmp(seq[j], seq[i]) < 0 \/ (cmp(seq[j], seq[i]) = 0 /\ j < i)
      pos(i) == 1 + Cardinality({j \in 1..n : before(j, i)})
  IN  [k \in 1..n |-> seq[CHOOSE i \in 1..n : pos(i) = k]]

----------------------------------------------------------------------------
(* config.ts *)

BRONX_ZIPS ==
  << <<1,0,4,5,1>>, <<1,0,4,5,2>>, <<1,0,4,5,3>>, <<1,0,4,5,4>>,
     <<1,0,4,5,5>>, <<1,0,4,5,6>>, <<1,0,4,5,7>>, <<1,0,4,5,8>>,
     <<1,0,4,5,9>>, <<1,0,4,6,0>>, <<1,0,4,6,1>>, <<1,0,4,6,2>>,
     <<1,0,4,6,3>>, <<1,0,4,6,4>>, <<1,0,4,6,5>>, <<1,0,4,6,6>>,
     <<1,0,4,6,7>>, <<1,0,4,6,8>>, <<1,0,4,6,9>>, <<1,0,4,7,0>>,
     <<1,0,4,7,1>>, <<1,0,4,7,2>>, <<1,0,4,7,3>>, <<1,0,4,7,4>>,
     <<1,0,4,7,5>>, <<1,0,4,9,9>> >>

DEFAULT_CONFIG ==
  [county_fips |-> <<3,6,0,0,5>>, state_fips |-> <<3,6>>,
   use_cache |-> TRUE, cache_max_age_days |-> 30]

UNASSIGNED == <<30,23,10,28,28,18,16,23,14,13>>
UNKNOWN == <<30,23,20,23,24,32,23>>

----------------------------------------------------------------------------
(* utils/validator.ts: field checks *)

isValidZip(zip) == Len(zip) = 5 /\ IsDigits(zip)

isValidFips(fips) == Len(fips) \in 2..5 /\ IsDigits(fips)

isValidGeoid(geoid) == Len(geoid) = 20 /\ IsDigits(geoid)

\* weight <= 1 forgotten
isValidWeight_noUpper(weight) == weight # NULL /\ weight >= 0

\* parseFloat(null) is NaN; a number parses to itself
isValidWeight(weight) == weight # NULL /\ weight >= 0 /\ weight <= ONE

----------------------------------------------------------------------------
(* build_zip_to_tract.ts: ZipToTractBuilder *)

\* A CSV cell holding a ratio: blank, text that is no number, or a decimal
BlankW == [kind |-> "blank", val |-> 0]
TextW == [kind |-> "text", val |-> 0]
NumW(v) == [kind |-> "num", val |-> v]

\* a || b on ratio cells
OrW(a, b) == IF a.kind # "blank" THEN a ELSE b

parseFloat(value) ==
  IF value.kind = "blank" THEN 0
  ELSE IF value.kind = "text" THEN 0   \* isNaN(num)
  ELSE value.val

normalizeRow(row) ==
  [zip_code    |-> OrStr(row.ZIP_CODE, OrStr(row.zip_code, OrStr(row.USPS_ZIP_CODE, row.zip))),
   county_fips |-> OrStr(row.COUNTY_FIPS, OrStr(row.county_fips, row.COUNTYFP)),
   tract       |-> OrStr(row.TRACT, OrStr(row.tract, row.CENSUS_TRACT)),
   state_fips  |-> OrStr(row.STATE_FIPS, OrStr(row.state_fips, row.STATEFP)),
   res_ratio   |-> parseFloat(OrW(row.RES_RATIO, row.res_ratio)),
   tot_ratio   |-> parseFloat(OrW(row.TOT_RATIO, row.tot_ratio))]

createGeoid(stateFips, countyFips, tract) ==
  LET s == padStart(stateFips, 2, 0)
      c0 == IF Len(countyFips) = 5 THEN substring(countyFips, 2) ELSE countyFips
      c == padStart(c0, 3, 0)
      t0 == padStart(tract, 6, 0)
      t == IF Len(t0) > 6 THEN substring(t0, Len(t0) - 6) ELSE t0
  IN  s \o c \o t

\* every ZIP passes the membership test
bronxZipsHas_all(zip) == TRUE

bronxZipsHas(zip) == zip \in Range(BRONX_ZIPS)

\* Where the loop body of filterBronxRecords leaves one record
filterVerdict(record) ==
  LET normalized == normalizeRow(record)
  IN  IF normalized.county_fips # DEFAULT_CONFIG.county_fips THEN "other_county"
      ELSE IF ~bronxZipsHas(normalized.zip_code) THEN "other_zip"
      ELSE IF normalized.zip_code = <<>> \/ normalized.county_fips = <<>>
              \/ normalized.tract = <<>> THEN "missing_fields"
      ELSE IF ~isValidWeight(normalized.res_ratio)
              \/ ~isValidWeight(normalized.tot_ratio) THEN "invalid_weights"
      ELSE "valid"

validRecordOf(record) ==
  LET normalized == normalizeRow(record)
  IN  [zip_code    |-> normalized.zip_code,
       county_fips |-> normalized.county_fips,
       tract       |-> normalized.tract,
       state_fips  |-> OrStr(normalized.state_fips, DEFAULT_CONFIG.state_fips),
       res_ratio   |-> normalized.res_ratio,
       tot_ratio   |-> normalized.tot_ratio]

RECURSIVE filterBronxRecords(_)
filterBronxRecords(records) ==
  IF records = <<>> THEN <<>>
  ELSE LET rest == filterBronxRecords(SubSeq(records, 1, Len(records) - 1))
           record == records[Len(records)]
       IN  IF filterVerdict(record) = "valid"
             THEN Append(rest, validRecordOf(record))
             ELSE rest

\* only the records with missing fields are collected
invalidRecords_missingOnly(records) ==
  SelectSeq(records, LAMBDA r : filterVerdict(r) = "missing_fields")

invalidRecords(records) ==
  SelectSeq(records, LAMBDA r : filterVerdict(r) \in {"missing_fields", "invalid_weights"})

rowKey(zip, tractGeoid) == zip \o <<DASH>> \o tractGeoid

\* the duplicate check never hits
seenHas_never(seen, key) == FALSE

seenHas(seen, key) == key \in seen

outputRowOf(record) ==
  [zip         |-> record.zip_code,
   county_fips |-> record.county_fips,
   tract_geoid |-> createGeoid(record.state_fips, record.county_fips, record.tract),
   state_fips  |-> record.state_fips,
   tract       |-> padStart(record.tract, 6, 0),
   weight_res  |-> record.res_ratio,
   weight_tot  |-> record.tot_ratio,
   nta_code    |-> UNASSIGNED,
   nta_name    |-> <<>>]

RECURSIVE createOutputRows(_)
createOutputRows(hudRecords) ==
  IF hudRecords = <<>> THEN <<>>
  ELSE LET before == SubSeq(hudRecords, 1, Len(hudRecords) - 1)
           outputRows == createOutputRows(before)
           row == outputRowOf(hudRecords[Len(hudRecords)])
           seen == {rowKey(outputRowOf(before[i]).zip, outputRowOf(before[i]).tract_geoid)
                      : i \in 1..Len(before)}
       IN  IF seenHas(seen, rowKey(row.zip, row.tract_geoid))
             THEN outputRows
             ELSE Append(outputRows, row)

\* the comparator of sortRows
compareRows(a, b) ==
  IF a.zip # b.zip THEN localeCompare(a.zip, b.zip)
  ELSE localeCompare(a.tract_geoid, b.tract_geoid)

\* the rows are left in the order of the weight table
sortRows_asRead(rows) == rows

sortRows(rows) == sortSeq(rows, compareRows)

\* ZipToTractBuilder.run on the parsed CSV records
builderRun(records) == sortRows(createOutputRows(filterBronxRecords(records)))

----------------------------------------------------------------------------
(* utils/validator.ts: Validator.validateZipToTractRow / validateZipToTractOutput *)

validateZipToTractRow(row) ==
  (IF row.zip = <<>> \/ ~isValidZip(row.zip) THEN <<"Invalid ZIP">> ELSE <<>>)
  \o (IF row.county_fips = <<>> \/ ~isValidFips(row.county_fips)
        THEN <<"Invalid county FIPS">> ELSE <<>>)
  \o (IF row.tract_geoid = <<>> \/ ~isValidGeoid(row.tract_geoid)
        THEN <<"Invalid GEOID">> ELSE <<>>)
  \o (IF ~isValidWeight(row.weight_res) THEN <<"Invalid weight_res">> ELSE <<>>)
  \o (IF ~isValidWeight(row.weight_tot) THEN <<"Invalid weight_tot">> ELSE <<>>)

\* seen.add(key) placed before the seen.has(key) test
isDuplicateAt_self(rows, i) ==
  \E j \in 1..i :
     rowKey(rows[j].zip, rows[j].tract_geoid) = rowKey(rows[i].zip, rows[i].tract_geoid)

\* seen.has(key) when the loop reaches row i
isDuplicateAt(rows, i) ==
  \E j \in 1..(i - 1) :
     rowKey(rows[j].zip, rows[j].tract_geoid) = rowKey(rows[i].zip, rows[i].tract_geoid)

\* what the loop body pushes to errors for row i
rowErrors(rows, i) ==
  (IF isDuplicateAt(rows, i)
     THEN << [type |-> "duplicate", location |-> i,
              value |-> rowKey(rows[i].zip, rows[i].tract_geoid)] >>
     ELSE <<>>)
  \o (IF validateZipToTractRow(rows[i]) # <<>>
        THEN << [type |-> "invalid_row", location |-> i,
                 message |-> validateZipToTractRow(rows[i])] >>
        ELSE <<>>)

\* what the loop body pushes to warnings for row i
rowWarnings(rows, i) ==
  IF rows[i].weight_res = NULL \/ rows[i].weight_tot = NULL
    THEN << [type |-> "null_weight", location |-> i, zip |-> <<>>] >>
    ELSE <<>>

RECURSIVE collectErrors(_, _)
collectErrors(rows, n) ==
  IF n = 0 THEN <<>> ELSE collectErrors(rows, n - 1) \o rowErrors(rows, n)

RECURSIVE collectWarnings(_, _)
collectWarnings(rows, n) ==
  IF n = 0 THEN <<>> ELSE collectWarnings(rows, n - 1) \o rowWarnings(rows, n)

\* the loop over expectedZips, in the order of the set's insertion
RECURSIVE missingZipWarnings(_, _, _)
missingZipWarnings(zips, expectedZips, n) ==
  IF n = 0 THEN <<>>
  ELSE missingZipWarnings(zips, expectedZips, n - 1)
       \o (IF expectedZips[n] \notin zips
             THEN << [type |-> "missing_zip", location |-> 0, zip |-> expectedZips[n]] >>
             ELSE <<>>)

\* the report is valid whatever was found
isValidOf_always(errors, warnings) == TRUE

\* warnings fail the report too
isValidOf_strict(errors, warnings) == Len(errors) = 0 /\ Len(warnings) = 0

isValidOf(errors, warnings) == Len(errors) = 0

validateZipToTractOutput(rows, expectedZips) ==
  LET n == Len(rows)
      errors == collectErrors(rows, n)
      zips == {rows[i].zip : i \in 1..n}
      warnings == collectWarnings(rows, n)
                  \o missingZipWarnings(zips, expectedZips, Len(expectedZips))
  IN  [isValid  |-> isValidOf(errors, warnings),
       errors   |-> errors,
       warnings |-> warnings,
       summary  |->
         [total_zips     |-> Cardinality(zips),
          total_tracts   |-> Cardinality({rows[i].tract_geoid : i \in 1..n}),
          total_ntas     |-> Cardinality({rows[i].nta_code : i \in 1..n}),
          duplicate_rows |-> Cardinality({i \in 1..n : isDuplicateAt(rows, i)}),
          null_weights   |-> Cardinality({i \in 1..n : rows[i].weight_res = NULL
                                                       \/ rows[i].weight_tot = NULL})]]

----------------------------------------------------------------------------
(* spatial_join_tract_to_nta.ts: SpatialJoinTractToNta                     *)
(* A linear ring is reduced to what turf and the fallback read from it:    *)
(* whether turf.polygon accepts it, the centroid turf computes and its     *)
(* first position (NoPoint when the ring has no position).  An NTA polygon *)
(* is reduced to whether turf.polygon accepts it and the set of grid       *)
(* points turf.booleanPointInPolygon finds inside it.                      *)

NoPoint == 0
Points == 1..3

calculateCentroid(coordinates) ==
  IF coordinates = <<>> THEN [threw |-> TRUE, point |-> NoPoint]
  ELSE LET ring == coordinates[1]
       IN  IF ring.ok THEN [threw |-> FALSE, point |-> ring.centroid]
           ELSE IF ring.first = NoPoint THEN [threw |-> TRUE, point |-> NoPoint]
           ELSE [threw |-> FALSE, point |-> ring.first]

pointInPolygon(point, polygon) ==
  IF polygon.type = "MultiPolygon"
    THEN \E k \in 1..Len(polygon.coordinates) :
            /\ point \in polygon.coordinates[k].inside
            /\ \A j \in 1..k : polygon.coordinates[j].ok
  ELSE IF polygon.type = "Polygon"
    THEN polygon.coordinates.ok /\ point \in polygon.coordinates.inside
  ELSE FALSE

extractNtaInfo(properties) ==
  [code |-> OrStr(properties.NTA_CODE, OrStr(properties.NTA_code,
              OrStr(properties.NTA, OrStr(properties.nta_code, UNKNOWN)))),
   name |-> OrStr(properties.NTA_NAME, OrStr(properties.NTA_name,
              OrStr(properties.nta_name, OrStr(properties.ntaname, UNKNOWN))))]

mappingOf(tractGeoid, code, name, confidence) ==
  [tract_geoid |-> tractGeoid, nta_code |-> code, nta_name |-> name,
   spatial_join_method |-> "centroid", confidence |-> confidence]

\* the representative point of a tract geometry of a supported type
tractCentroid(geometry) ==
  IF geometry.type = "Polygon" THEN calculateCentroid(geometry.coordinates)
  ELSE IF geometry.coordinates = <<>> THEN [threw |-> TRUE, point |-> NoPoint]
  ELSE calculateCentroid(geometry.coordinates[1])

\* one iteration of the loop over tractGeoJSON.features
joinTract(tractFeature, ntaFeatures) ==
  LET tractGeoid == OrStr(tractFeature.properties.GEOID, UNKNOWN)
      centroid == tractCentroid(tractFeature.geometry)
      hits == {k \in 1..Len(ntaFeatures) :
                 pointInPolygon(centroid.point, ntaFeatures[k].geometry)}
  IN  IF ~startsWith(tractGeoid, <<3,6,0,0,5>>)
        THEN [kind |-> "skip", rec |-> mappingOf(tractGeoid, UNASSIGNED, <<>>, "low")]
      ELSE IF tractFeature.geometry.type \notin {"Polygon", "MultiPolygon"}
        THEN [kind |-> "push", rec |-> mappingOf(tractGeoid, UNASSIGNED, <<>>, "low")]
      ELSE IF centroid.threw
        THEN [kind |-> "throw", rec |-> mappingOf(tractGeoid, UNASSIGNED, <<>>, "low")]
      ELSE IF hits # {}
        THEN LET info == extractNtaInfo(ntaFeatures[Min(hits)].properties)
             IN  [kind |-> "push", rec |-> mappingOf(tractGeoid, info.code, info.name, "high")]
      ELSE [kind |-> "push", rec |-> mappingOf(tractGeoid, UNASSIGNED, <<>>, "low")]

compareMappings(a, b) == localeCompare(a.tract_geoid, b.tract_geoid)

\* SpatialJoinTractToNta.run on the two cached files
spatialJoinRun(tractFile, ntaFile) ==
  LET tracts == tractFile.data
      outcome == [i \in 1..Len(tracts) |-> joinTract(tracts[i], ntaFile.data)]
      pushed == SelectSeq(outcome, LAMBDA o : o.kind = "push")
  IN  IF \/ ~tractFile.exists \/ tractFile.data = <<>>
         \/ ~ntaFile.exists \/ ntaFile.data = <<>>
         \/ \E i \in 1..Len(tracts) : outcome[i].kind = "throw"
        THEN [threw |-> TRUE, results |-> <<>>]
        ELSE [threw |-> FALSE,
              results |-> sortSeq([i \in 1..Len(pushed) |-> pushed[i].rec],
                                  compareMappings)]

----------------------------------------------------------------------------
(* build_bronx_crosswalk.ts: PipelineMaster.mergeNtaIntoZipToTracts *)

Max(S) == CHOOSE x \in S : \A y \in S : x >= y

\* the name of the neighborhood is not copied
mergeRow_codeOnly(row, mappings) ==
  LET found == {i \in 1..Len(mappings) : mappings[i].tract_geoid = row.tract_geoid}
  IN  IF found # {}
        THEN [row EXCEPT !.nta_code = mappings[Max(found)].nta_code]
        ELSE [row EXCEPT !.nta_code = UNASSIGNED, !.nta_name = <<>>]

mergeRow(row, mappings) ==
  LET found == {i \in 1..Len(mappings) : mappings[i].tract_geoid = row.tract_geoid}
  IN  IF found # {}
        THEN [row EXCEPT !.nta_code = mappings[Max(found)].nta_code,
                         !.nta_name = mappings[Max(found)].nta_name]
        ELSE [row EXCEPT !.nta_code = UNASSIGNED, !.nta_name = <<>>]

\* a join record is given to the first row of its tract only
mergeNtaIntoZipToTracts_firstRow(rows, mappings) ==
  [i \in 1..Len(rows) |->
     IF \E j \in 1..(i - 1) : rows[j].tract_geoid = rows[i].tract_geoid
       THEN rows[i]
       ELSE mergeRow(rows[i], mappings)]

mergeNtaIntoZipToTracts(rows, mappings) ==
  [i \in 1..Len(rows) |-> mergeRow(rows[i], mappings)]

----------------------------------------------------------------------------
(* build_neighborhood_clusters.ts: NeighborhoodClustering.run *)

\* unassigned rows are clustered like the others
isUnassigned_never(row) == FALSE

isUnassigned(row) == row.nta_code = UNASSIGNED

\* the includes() check left out
pushUnique_always(list, x) == Append(list, x)

pushUnique(list, x) == IF includes(list, x) THEN list ELSE Append(list, x)

\* the clusters Map after the loop over the rows, in insertion order
RECURSIVE groupRows(_)
groupRows(rows) ==
  IF rows = <<>> THEN <<>>
  ELSE LET clusters == groupRows(SubSeq(rows, 1, Len(rows) - 1))
           row == rows[Len(rows)]
           at == {k \in 1..Len(clusters) : clusters[k].nta_code = row.nta_code}
           k == IF at = {} THEN Len(clusters) + 1 ELSE Min(at)
           got == IF at = {}
                    THEN Append(clusters,
                           [nta_code |-> row.nta_code, nta_name |-> row.nta_name,
                            tract_geoids |-> <<>>, zips |-> <<>>,
                            tract_count |-> 0, zip_count |-> 0])
                    ELSE clusters
       IN  IF isUnassigned(row) THEN clusters
           ELSE [got EXCEPT ![k].tract_geoids = pushUnique(@, row.tract_geoid),
                            ![k].zips = pushUnique(@, row.zip)]

\* only the first ZIP of a cluster is kept
finishCluster_oneZip(cluster) ==
  LET tracts == sortSeq(cluster.tract_geoids, localeCompare)
      zips == SubSeq(sortSeq(cluster.zips, localeCompare), 1, 1)
  IN  [cluster EXCEPT !.tract_geoids = tracts, !.zips = zips,
                      !.tract_count = Len(tracts), !.zip_count = Len(zips)]

finishCluster(cluster) ==
  LET tracts == sortSeq(cluster.tract_geoids, localeCompare)
      zips == sortSeq(cluster.zips, localeCompare)
  IN  [cluster EXCEPT !.tract_geoids = tracts, !.zips = zips,
                      !.tract_count = Len(tracts), !.zip_count = Len(zips)]

compareClusters(a, b) == localeCompare(a.nta_code, b.nta_code)

clusteringRun(rows) ==
  LET clusters == groupRows(rows)
  IN  sortSeq([k \in 1..Len(clusters) |-> finishCluster(clusters[k])], compareClusters)

----------------------------------------------------------------------------
(* utils/file-cache.ts: FileCache, and download_sources.ts: SourceDownloader *)
(* A file is whether it exists and what it holds.  The age of a file is    *)
(* counted in whole days.  A server is the chain of responses a request to *)
(* its URL meets: response h + 1 is what the Location of response h gives. *)

File(data) == [exists |-> TRUE, data |-> data]
NoFile == [exists |-> FALSE, data |-> <<>>]

\* a file of exactly the maximum age still counts as fresh
isFresh_inclusive(file, ageDays) ==
  /\ DEFAULT_CONFIG.use_cache
  /\ file.exists
  /\ ageDays <= DEFAULT_CONFIG.cache_max_age_days

isFresh(file, ageDays) ==
  /\ DEFAULT_CONFIG.use_cache
  /\ file.exists
  /\ ageDays < DEFAULT_CONFIG.cache_max_age_days

NoCause == [kind |-> "none", statusCode |-> 0]

\* the promise of downloadFile(url) for the request that is hop-th in the chain
RECURSIVE downloadFile(_, _)
downloadFile(chain, hop) ==
  LET response == chain[hop]
  IN  IF response.silent
        \* neither the callback of get nor an 'error' event: setTimeout is
        \* given no listener, so the promise is neither resolved nor rejected
        THEN [settled |-> FALSE, ok |-> FALSE, data |-> <<>>, requests |-> hop,
              cause |-> NoCause]
      ELSE IF response.error
        THEN [settled |-> TRUE, ok |-> FALSE, data |-> <<>>, requests |-> hop,
              cause |-> [kind |-> "request error", statusCode |-> 0]]
      ELSE IF response.statusCode \in {301, 302} /\ response.location
        THEN downloadFile(chain, hop + 1)
      ELSE IF response.statusCode # 200
        THEN [settled |-> TRUE, ok |-> FALSE, data |-> <<>>, requests |-> hop,
              cause |-> [kind |-> "HTTP", statusCode |-> response.statusCode]]
      ELSE [settled |-> TRUE, ok |-> TRUE, data |-> response.body, requests |-> hop,
            cause |-> NoCause]

\* the requests one downloadFile call issued, in order
requestsOf(url, n) == [h \in 1..n |-> [url |-> url, hop |-> h]]

NoError == [source |-> "", causes |-> <<>>]

\* a download that returned data, leaving file (of age ageDays) in the cache
Returned(data, file, ageDays, requests) ==
  [ran |-> TRUE, threw |-> FALSE, pending |-> FALSE, data |-> data, file |-> file,
   age |-> ageDays, requests |-> requests, error |-> NoError]

\* a download that threw: the cache file is as it was
Threw(file, ageDays, requests, source, causes) ==
  [ran |-> TRUE, threw |-> TRUE, pending |-> FALSE, data |-> <<>>, file |-> file,
   age |-> ageDays, requests |-> requests, error |-> [source |-> source, causes |-> causes]]

\* a download that run() did not reach
NotRun(file, ageDays) ==
  [ran |-> FALSE, threw |-> FALSE, pending |-> FALSE, data |-> <<>>, file |-> file,
   age |-> ageDays, requests |-> <<>>, error |-> NoError]

\* a download whose await on downloadFile never resumes
Pending(file, ageDays, requests) ==
  [ran |-> TRUE, threw |-> FALSE, pending |-> TRUE, data |-> <<>>, file |-> file,
   age |-> ageDays, requests |-> requests, error |-> NoError]

downloadHudCrosswalk(file, ageDays, net) ==
  LET first == downloadFile(net.hud_url, 1)
      second == downloadFile(net.alternativeUrl, 1)
      firstRequests == requestsOf("hud_url", first.requests)
      bothRequests == firstRequests \o requestsOf("alternativeUrl", second.requests)
  IN  IF isFresh(file, ageDays) THEN Returned(file.data, file, ageDays, <<>>)
      ELSE IF ~first.settled THEN Pending(file, ageDays, firstRequests)
      ELSE IF first.ok THEN Returned(first.data, File(first.data), 0, firstRequests)
      ELSE IF ~second.settled THEN Pending(file, ageDays, bothRequests)
      ELSE IF second.ok THEN Returned(second.data, File(second.data), 0, bothRequests)
      ELSE Threw(file, ageDays, bothRequests, "HUD data", <<first.cause, second.cause>>)

\* the tract archive gets a second URL to try, as the weight table does
downloadCensusTiger_withFallback(file, ageDays, net) ==
  LET first == downloadFile(net.census_tiger_url, 1)
      second == downloadFile(net.alternativeUrl, 1)
      firstRequests == requestsOf("census_tiger_url", first.requests)
      bothRequests == firstRequests \o requestsOf("alternativeUrl", second.requests)
  IN  IF isFresh(file, ageDays) THEN Returned(file.data, file, ageDays, <<>>)
      ELSE IF ~first.settled THEN Pending(file, ageDays, firstRequests)
      ELSE IF first.ok THEN Returned(first.data, File(first.data), 0, firstRequests)
      ELSE IF ~second.settled THEN Pending(file, ageDays, bothRequests)
      ELSE IF second.ok THEN Returned(second.data, File(second.data), 0, bothRequests)
      ELSE Threw(file, ageDays, bothRequests, "Census TIGER data", <<first.cause>>)

downloadCensusTiger(file, ageDays, net) ==
  LET first == downloadFile(net.census_tiger_url, 1)
      firstRequests == requestsOf("census_tiger_url", first.requests)
  IN  IF isFresh(file, ageDays) THEN Returned(file.data, file, ageDays, <<>>)
      ELSE IF ~first.settled THEN Pending(file, ageDays, firstRequests)
      ELSE IF first.ok THEN Returned(first.data, File(first.data), 0, firstRequests)
      ELSE Threw(file, ageDays, firstRequests, "Census TIGER data", <<first.cause>>)

downloadNtaBoundaries(file, ageDays, net) ==
  LET first == downloadFile(net.nta_url, 1)
      firstRequests == requestsOf("nta_url", first.requests)
  IN  IF isFresh(file, ageDays) THEN Returned(file.data, file, ageDays, <<>>)
      ELSE IF ~first.settled THEN Pending(file, ageDays, firstRequests)
      ELSE IF first.ok THEN Returned(first.data, File(first.data), 0, firstRequests)
      ELSE Threw(file, ageDays, firstRequests, "NTA boundaries", <<first.cause>>)

\* SourceDownloader.run(failOnError): the three downloads in order; exited
\* tells that a rethrown error reached the outer catch and process.exit(1),
\* pending that run() stands at an await that never resumes
downloaderRun(failOnError, files, ages, net) ==
  LET hud == downloadHudCrosswalk(files.hud_zip_tract, ages.hud_zip_tract, net)
      stopHud == hud.pending \/ (failOnError /\ hud.threw)
      tiger == IF stopHud THEN NotRun(files.census_tiger, ages.census_tiger)
               ELSE downloadCensusTiger(files.census_tiger, ages.census_tiger, net)
      stopTiger == stopHud \/ tiger.pending \/ (failOnError /\ tiger.threw)
      nta == IF stopTiger THEN NotRun(files.nta_geojson, ages.nta_geojson)
             ELSE downloadNtaBoundaries(files.nta_geojson, ages.nta_geojson, net)
  IN  [exited |-> failOnError /\ (hud.threw \/ tiger.threw \/ nta.threw),
       pending |-> hud.pending \/ tiger.pending \/ nta.pending,
       files |-> [files EXCEPT !.hud_zip_tract = hud.file,
                               !.census_tiger = tiger.file,
                               !.nta_geojson = nta.file],
       ages |-> [hud_zip_tract |-> hud.age, census_tiger |-> tiger.age,
                 nta_geojson |-> nta.age],
       results |-> [hud_zip_tract |-> hud, census_tiger |-> tiger, nta_geojson |-> nta]]

----------------------------------------------------------------------------
(* The cached inputs that are explored *)

SeqsUpTo(S, n) == UNION {[1..k -> S] : k \in 0..n}

EmptyRow ==
  [ZIP_CODE |-> <<>>, zip_code |-> <<>>, USPS_ZIP_CODE |-> <<>>, zip |-> <<>>,
   COUNTY_FIPS |-> <<>>, county_fips |-> <<>>, COUNTYFP |-> <<>>,
   TRACT |-> <<>>, tract |-> <<>>, CENSUS_TRACT |-> <<>>,
   STATE_FIPS |-> <<>>, state_fips |-> <<>>, STATEFP |-> <<>>,
   RES_RATIO |-> BlankW, res_ratio |-> BlankW,
   TOT_RATIO |-> BlankW, tot_ratio |-> BlankW]

\* ZIP 10456, county 36005, tract 012300, state 36, ratios 0.6 and 0.4
BaseRow ==
  [EmptyRow EXCEPT !.ZIP_CODE = <<1,0,4,5,6>>, !.COUNTY_FIPS = <<3,6,0,0,5>>,
                   !.TRACT = <<0,1,2,3,0,0>>, !.STATE_FIPS = <<3,6>>,
                   !.RES_RATIO = NumW(6), !.TOT_RATIO = NumW(4)]

\* the same fields under the other column spellings: ZIP 10451, tract 012400
AliasRow ==
  [EmptyRow EXCEPT !.USPS_ZIP_CODE = <<1,0,4,5,1>>, !.COUNTYFP = <<3,6,0,0,5>>,
                   !.CENSUS_TRACT = <<0,1,2,4,0,0>>, !.STATEFP = <<3,6>>,
                   !.res_ratio = NumW(4), !.tot_ratio = NumW(6)]

RawTracts == { <<0,1,2,3,0,0>>, <<1,2,3,0,0>>, <<5,0,1,2,4,0,0>>, <<>> }
RawStates == { <<3,6>>, <<3,6,0>>, <<>> }
RawWeights == { BlankW, TextW, NumW(0 - 5), NumW(10), NumW(15) }

ScopeRows ==
  {[BaseRow EXCEPT !.ZIP_CODE = z] : z \in { <<1,0,4,5,6>>, <<1,0,0,0,1>>, <<>> }}
  \cup {[BaseRow EXCEPT !.COUNTY_FIPS = c] : c \in { <<3,6,0,6,1>>, <<>> }}

IdRows ==
  {[BaseRow EXCEPT !.TRACT = t] : t \in RawTracts}
  \cup {[BaseRow EXCEPT !.STATE_FIPS = st] : st \in RawStates}
  \cup {[BaseRow EXCEPT !.ZIP_CODE = <<1,0,4,5,1>>, !.TRACT = t] :
          t \in { <<0,1,2,3,0,0>>, <<5,0,1,2,4,0,0>> }}

WeightRows ==
  {[BaseRow EXCEPT !.RES_RATIO = w] : w \in RawWeights}
  \cup {[BaseRow EXCEPT !.TOT_RATIO = w] : w \in {TextW, NumW(15)}}

HudRows == ScopeRows \cup IdRows \cup WeightRows \cup {AliasRow}

Ring(c) == [ok |-> TRUE, centroid |-> c, first |-> c]
TractPolygon(c) == [type |-> "Polygon", coordinates |-> << Ring(c) >>]
TractMultiPolygon(c1, c2) ==
  [type |-> "MultiPolygon", coordinates |-> << << Ring(c1) >>, << Ring(c2) >> >>]
TractOther == [type |-> "Point", coordinates |-> <<>>]

TractFeature(geoid, geometry) == [properties |-> [GEOID |-> geoid], geometry |-> geometry]

G012300 == <<3,6,0,0,5,0,1,2,3,0,0>>
G012400 == <<3,6,0,0,5,0,1,2,4,0,0>>
GManhattan == <<3,6,0,6,1,0,0,0,1,0,0>>

TractGeometries == {TractPolygon(1), TractPolygon(3), TractMultiPolygon(2, 1)}

TractFeatures ==
  {TractFeature(g, geom) : g \in {G012300, G012400}, geom \in TractGeometries}
  \cup {TractFeature(G012400, TractOther), TractFeature(GManhattan, TractPolygon(1))}

\* GEOID is the key of the tract collection
TractCollections ==
  {l \in SeqsUpTo(TractFeatures, MaxTracts) :
     \A i, j \in 1..Len(l) : i # j => l[i].properties.GEOID # l[j].properties.GEOID}

NoProperties ==
  [NTA_CODE |-> <<>>, NTA_code |-> <<>>, NTA |-> <<>>, nta_code |-> <<>>,
   NTA_NAME |-> <<>>, NTA_name |-> <<>>, nta_name |-> <<>>, ntaname |-> <<>>]

BX35 == <<11,33,3,5>>
BX01 == <<11,33,0,1>>

NtaMorrisania ==
  [properties |-> [NoProperties EXCEPT !.NTA_CODE = BX35, !.NTA_NAME = <<22>>],
   geometry |-> [type |-> "Polygon", coordinates |-> [ok |-> TRUE, inside |-> {1}]]]
NtaClaremont ==
  [properties |-> [NoProperties EXCEPT !.nta_code = BX01, !.ntaname = <<12>>],
   geometry |-> [type |-> "MultiPolygon",
                 coordinates |-> << [ok |-> TRUE, inside |-> {2}],
                                    [ok |-> TRUE, inside |-> {1}] >>]]
NtaFeatures == {NtaMorrisania, NtaClaremont}

NtaCollections == SeqsUpTo(NtaFeatures, MaxNtas)

FixedTracts == << TractFeature(G012300, TractPolygon(1)), TractFeature(G012400, TractPolygon(3)) >>
FixedNtas == << NtaMorrisania, NtaClaremont >>

Row10456x012400 == [BaseRow EXCEPT !.TRACT = <<0,1,2,4,0,0>>, !.RES_RATIO = NumW(4)]
Row10451x012300 == [BaseRow EXCEPT !.ZIP_CODE = <<1,0,4,5,1>>]

JoinTables ==
  { << BaseRow, Row10456x012400, Row10451x012300 >>,
    << BaseRow, Row10456x012400 >>,
    << AliasRow, Row10451x012300 >> }

\* the tract archive as downloaded: opaque bytes no phase reads
Zip0 == <<0>>
Zip1 == <<1>>

\* every weight table against one geometry, a few weight tables against
\* every geometry, and each file absent
CacheStates ==
  {[hud_zip_tract |-> File(t), census_tiger |-> File(Zip0),
    census_tiger_geojson |-> File(FixedTracts),
    nta_geojson |-> File(FixedNtas)] : t \in SeqsUpTo(HudRows, MaxRows)}
  \cup {[hud_zip_tract |-> File(t), census_tiger |-> File(Zip0),
         census_tiger_geojson |-> File(tc), nta_geojson |-> File(nc)] :
          t \in JoinTables, tc \in TractCollections, nc \in NtaCollections}
  \cup {[hud_zip_tract |-> h, census_tiger |-> File(Zip0),
         census_tiger_geojson |-> tc, nta_geojson |-> nc] :
          h \in {NoFile, File(<< BaseRow >>)},
          tc \in {NoFile, File(FixedTracts)},
          nc \in {NoFile, File(FixedNtas)}}

\* geometries turf rejects: a ring turf.polygon refuses (its first position
\* is still there), a polygon with no ring at all
BadRing(c) == [ok |-> FALSE, centroid |-> NoPoint, first |-> c]
TractDegenerate(c) == [type |-> "Polygon", coordinates |-> << BadRing(c) >>]
TractEmpty == [type |-> "Polygon", coordinates |-> <<>>]

NtaBroken ==
  [properties |-> [NoProperties EXCEPT !.NTA_CODE = BX35, !.NTA_NAME = <<22>>],
   geometry |-> [type |-> "Polygon", coordinates |-> [ok |-> FALSE, inside |-> {}]]]

FaultyTractCollections ==
  { << TractFeature(G012300, g), TractFeature(G012400, TractPolygon(2)) >> :
      g \in {TractDegenerate(1), TractDegenerate(3), TractEmpty, TractPolygon(1)} }
  \cup { << TractFeature(G012400, TractPolygon(2)), TractFeature(G012300, TractEmpty) >>,
         << TractFeature(G012300, TractEmpty) >> }

FaultyNtaCollections == { FixedNtas, << NtaBroken, NtaClaremont >>, << NtaBroken >> }

\* the responses of a server
Response(error, statusCode, location, body) ==
  [silent |-> FALSE, error |-> error, statusCode |-> statusCode, location |-> location,
   body |-> body]
Ok(body) == Response(FALSE, 200, FALSE, body)
Redirect(hop) == Response(FALSE, IF hop % 2 = 1 THEN 301 ELSE 302, TRUE, <<>>)
NotFound == Response(FALSE, 404, FALSE, <<>>)
RedirectNoLocation == Response(FALSE, 301, FALSE, <<>>)
RequestError == Response(TRUE, 0, FALSE, <<>>)
\* the server takes the connection and never sends a response
Silent == [Response(FALSE, 0, FALSE, <<>>) EXCEPT !.silent = TRUE]

\* up to MaxHops redirects, then a final response
Chains(body) ==
  {[h \in 1..(n + 1) |-> IF h <= n THEN Redirect(h) ELSE last] :
     n \in 0..MaxHops, last \in {Ok(body), NotFound, RedirectNoLocation, RequestError}}

NetworkDown ==
  [hud_url |-> << RequestError >>, alternativeUrl |-> << RequestError >>,
   census_tiger_url |-> << RequestError >>, nta_url |-> << RequestError >>]

NetworkUp ==
  [hud_url |-> << Ok(<< Row10451x012300 >>) >>, alternativeUrl |-> << Ok(<< AliasRow >>) >>,
   census_tiger_url |-> << Ok(Zip1) >>, nta_url |-> << Ok(FixedNtas) >>]

AllFresh == [hud_zip_tract |-> 0, census_tiger |-> 0, nta_geojson |-> 0]

\* a cache entry before the run: absent, just fresh, or just too old
CachedEntries(data) ==
  {[file |-> NoFile, age |-> 0]}
  \cup {[file |-> File(data), age |-> a] :
          a \in {DEFAULT_CONFIG.cache_max_age_days - 1, DEFAULT_CONFIG.cache_max_age_days}}

FreshCache ==
  [hud_zip_tract |-> File(<< BaseRow >>), census_tiger |-> File(Zip0),
   census_tiger_geojson |-> File(FixedTracts), nta_geojson |-> File(FixedNtas)]

EmptyCache ==
  [hud_zip_tract |-> NoFile, census_tiger |-> NoFile,
   census_tiger_geojson |-> NoFile, nta_geojson |-> NoFile]

NoOutput ==
  [zip_to_tracts_json |-> NoFile, zip_to_tracts_csv |-> NoFile,
   neighborhood_clusters_json |-> NoFile, validation_report |-> NoFile]

Inputs(files, ages, net, out) ==
  [cache |-> files, cacheAge |-> ages, network |-> net, outputDir |-> out]

\* what is on disk and on the network when the pipeline starts
CachedInputs == {Inputs(c, AllFresh, NetworkDown, NoOutput) : c \in CacheStates}

FaultyInputs ==
  {Inputs([FreshCache EXCEPT !.hud_zip_tract = File(<< BaseRow, Row10456x012400 >>),
                             !.census_tiger_geojson = File(tc),
                             !.nta_geojson = File(nc)],
          AllFresh, NetworkDown, NoOutput) :
     tc \in FaultyTractCollections, nc \in FaultyNtaCollections}

HudInputs ==
  {Inputs([FreshCache EXCEPT !.hud_zip_tract = e.file],
          [AllFresh EXCEPT !.hud_zip_tract = e.age],
          [NetworkDown EXCEPT !.hud_url = c, !.alternativeUrl = a], NoOutput) :
     e \in CachedEntries(<< BaseRow >>), c \in Chains(<< Row10451x012300 >>),
     a \in { << Ok(<< AliasRow >>) >>, << NotFound >>,
             << Redirect(1), Ok(<< AliasRow >>) >> }}

TigerInputs ==
  {Inputs([FreshCache EXCEPT !.census_tiger = e.file],
          [AllFresh EXCEPT !.census_tiger = e.age],
          [NetworkUp EXCEPT !.census_tiger_url = c], NoOutput) :
     e \in CachedEntries(Zip0), c \in Chains(Zip1)}

NtaInputs ==
  {Inputs([FreshCache EXCEPT !.nta_geojson = e.file],
          [AllFresh EXCEPT !.nta_geojson = e.age],
          [NetworkUp EXCEPT !.nta_url = c], NoOutput) :
     e \in CachedEntries(FixedNtas), c \in Chains(<< NtaClaremont >>)}

\* an empty cache and a server that stays silent, at the first request or
\* behind a redirect
SilentInputs ==
  {Inputs(EmptyCache, AllFresh, [NetworkUp EXCEPT ![u] = c], NoOutput) :
     u \in {"hud_url", "census_tiger_url", "nta_url"},
     c \in { << Silent >>, << Redirect(1), Silent >> }}
  \cup {Inputs(EmptyCache, AllFresh,
                [NetworkUp EXCEPT !.hud_url = << NotFound >>, !.alternativeUrl = << Silent >>],
                NoOutput)}

\* the output directory as a run over the table << Row10451x012300 >> left it
PriorRows ==
  mergeNtaIntoZipToTracts(builderRun(<< Row10451x012300 >>),
                          spatialJoinRun(File(FixedTracts), File(FixedNtas)).results)

----------------------------------------------------------------------------
(* build_bronx_crosswalk.ts: PipelineMaster *)

Phases == 1..5

CsvColumns ==
  << "zip", "county_fips", "state_fips", "tract_geoid", "tract",
     "weight_res", "weight_tot", "nta_code", "nta_name" >>

csvRecord(row) ==
  << row.zip, row.county_fips, row.state_fips, row.tract_geoid, row.tract,
     row.weight_res, row.weight_tot, row.nta_code, row.nta_name >>

stringify(rows) ==
  [header |-> CsvColumns, records |-> [i \in 1..Len(rows) |-> csvRecord(rows[i])]]

PriorOutput ==
  [zip_to_tracts_json |-> File(PriorRows),
   zip_to_tracts_csv |-> File(stringify(PriorRows)),
   neighborhood_clusters_json |-> File(clusteringRun(PriorRows)),
   validation_report |-> File(validateZipToTractOutput(PriorRows, BRONX_ZIPS))]

RerunInputs ==
  {Inputs([FreshCache EXCEPT !.hud_zip_tract = File(t)], AllFresh, NetworkDown, PriorOutput) :
     t \in SeqsUpTo(HudRows, 1) \cup JoinTables}

InitialInputs ==
  CachedInputs \cup FaultyInputs \cup HudInputs \cup TigerInputs \cup NtaInputs
  \cup RerunInputs \cup {Inputs(EmptyCache, AllFresh, NetworkUp, NoOutput)}
  \cup SilentInputs

\* the pipeline has not been launched on this cache before
NoEarlierRun == [ran |-> FALSE, files |-> NoOutput]

\* the library functions are not called outside the pipeline
NoResult == [returned |-> FALSE]
NoLibraryCall ==
  /\ checkedRows = <<>>
  /\ validation = NoResult
  /\ geoMetrics = <<>>
  /\ geoCellCounts = <<>>
  /\ suppression = NoResult
  /\ completeness = NoResult

\* this.statuses is an empty Map; a phase without entry is shown as pending
Init ==
  /\ pc = <<"begin", 1>>
  /\ \E in \in InitialInputs :
       /\ cache = in.cache
       /\ cacheAge = in.cacheAge
       /\ network = in.network
       /\ outputDir = in.outputDir
  /\ downloads = [hud_zip_tract |-> NotRun(cache.hud_zip_tract, cacheAge.hud_zip_tract),
                  census_tiger |-> NotRun(cache.census_tiger, cacheAge.census_tiger),
                  nta_geojson |-> NotRun(cache.nta_geojson, cacheAge.nta_geojson)]
  /\ statuses = [k \in Phases |-> "pending"]
  /\ exitCode = NOT_EXITED
  /\ zipToTracts = <<>>
  /\ tractToNta = <<>>
  /\ neighborhoodClusters = <<>>
  /\ skippedInvalid = 0
  /\ clock = 0
  /\ earlier = NoEarlierRun
  /\ NoLibraryCall

\* a phase that ends leaves its status as it was
setPhaseStatus_skipComplete(st, phase, status) ==
  IF status = "complete" THEN st ELSE [st EXCEPT ![phase] = status]

setPhaseStatus(st, phase, status) == [st EXCEPT ![phase] = status]

\* every file written carries the time of the launch
writeFileSync_dated(data) == File([written_at |-> clock, content |-> data])

\* fs.writeFileSync(path, JSON.stringify(data, null, 2)), or the CSV text
writeFileSync(data) == File(data)

\* the catch block of run reports success too
exitStatus_success(failed) == 0

\* the argument of process.exit at the end of run and in its catch block
exitStatus(failed) == IF failed THEN 1 ELSE 0

\* setPhaseStatus(k, {status: 'running'}) at the head of runPhase<k>
setRunning ==
  \E k \in Phases :
    /\ pc = <<"begin", k>>
    /\ statuses' = setPhaseStatus(statuses, k, "running")
    /\ pc' = <<"body", k>>
    /\ UNCHANGED <<network, cache, cacheAge, downloads, exitCode, zipToTracts, tractToNta,
                   neighborhoodClusters, outputDir, skippedInvalid>>
    /\ UNCHANGED <<clock, earlier, callVars>>

\* downloader.run() is called without argument: failOnError is false; the
\* phase goes on when the awaited run() has returned
runPhase1 ==
  /\ pc = <<"body", 1>>
  /\ LET run == downloaderRun(FALSE, cache, cacheAge, network)
     IN  /\ ~run.pending
         /\ cache' = run.files
         /\ cacheAge' = run.ages
         /\ downloads' = run.results
         /\ IF run.exited
              THEN /\ exitCode' = 1
                   /\ pc' = <<"exited", 1>>
                   /\ UNCHANGED statuses
              ELSE /\ statuses' = setPhaseStatus(statuses, 1, "complete")
                   /\ pc' = <<"begin", 2>>
                   /\ UNCHANGED exitCode
  /\ UNCHANGED <<network, zipToTracts, tractToNta, neighborhoodClusters, outputDir,
                 skippedInvalid>>
  /\ UNCHANGED <<clock, earlier, callVars>>

runPhase2 ==
  /\ pc = <<"body", 2>>
  /\ IF cache.hud_zip_tract.exists
       THEN /\ zipToTracts' = builderRun(cache.hud_zip_tract.data)
            /\ skippedInvalid' = Len(invalidRecords(cache.hud_zip_tract.data))
            /\ statuses' = setPhaseStatus(statuses, 2, "complete")
            /\ pc' = <<"begin", 3>>
       ELSE /\ statuses' = setPhaseStatus(statuses, 2, "error")
            /\ pc' = <<"catch", 2>>
            /\ UNCHANGED <<zipToTracts, skippedInvalid>>
  /\ UNCHANGED <<network, cache, cacheAge, downloads, exitCode, tractToNta,
                 neighborhoodClusters, outputDir>>
  /\ UNCHANGED <<clock, earlier, callVars>>

runPhase3 ==
  /\ pc = <<"body", 3>>
  /\ LET join == spatialJoinRun(cache.census_tiger_geojson, cache.nta_geojson)
     IN  IF ~join.threw
           THEN /\ tractToNta' = join.results
                /\ zipToTracts' = mergeNtaIntoZipToTracts(zipToTracts, join.results)
                /\ statuses' = setPhaseStatus(statuses, 3, "complete")
                /\ pc' = <<"begin", 4>>
           ELSE /\ statuses' = setPhaseStatus(statuses, 3, "error")
                /\ pc' = <<"catch", 3>>
                /\ UNCHANGED <<tractToNta, zipToTracts>>
  /\ UNCHANGED <<network, cache, cacheAge, downloads, exitCode, neighborhoodClusters,
                 outputDir, skippedInvalid>>
  /\ UNCHANGED <<clock, earlier, callVars>>

runPhase4 ==
  /\ pc = <<"body", 4>>
  /\ neighborhoodClusters' = clusteringRun(zipToTracts)
  /\ statuses' = setPhaseStatus(statuses, 4, "complete")
  /\ pc' = <<"begin", 5>>
  /\ UNCHANGED <<network, cache, cacheAge, downloads, exitCode, zipToTracts, tractToNta,
                 outputDir, skippedInvalid>>
  /\ UNCHANGED <<clock, earlier, callVars>>

runPhase5 ==
  /\ pc = <<"body", 5>>
  /\ outputDir' =
       [zip_to_tracts_json |->
          IF Len(zipToTracts) > 0 THEN writeFileSync(zipToTracts)
          ELSE outputDir.zip_to_tracts_json,
        zip_to_tracts_csv |->
          IF Len(zipToTracts) > 0 THEN writeFileSync(stringify(zipToTracts))
          ELSE outputDir.zip_to_tracts_csv,
        neighborhood_clusters_json |->
          IF Len(neighborhoodClusters) > 0 THEN writeFileSync(neighborhoodClusters)
          ELSE outputDir.neighborhood_clusters_json,
        validation_report |->
          writeFileSync(validateZipToTractOutput(zipToTracts, BRONX_ZIPS))]
  /\ statuses' = setPhaseStatus(statuses, 5, "complete")
  /\ pc' = <<"begin", 6>>
  /\ UNCHANGED <<network, cache, cacheAge, downloads, exitCode, zipToTracts, tractToNta,
                 neighborhoodClusters, skippedInvalid>>
  /\ UNCHANGED <<clock, earlier, callVars>>

\* process.exit(0) after the last phase
exitSuccess ==
  /\ pc = <<"begin", 6>>
  /\ exitCode' = exitStatus(FALSE)
  /\ pc' = <<"exited", 0>>
  /\ UNCHANGED <<network, cache, cacheAge, downloads, statuses, zipToTracts, tractToNta,
                 neighborhoodClusters, outputDir, skippedInvalid>>
  /\ UNCHANGED <<clock, earlier, callVars>>

\* the catch block of run: process.exit(1)
exitFailure ==
  /\ \E k \in Phases : pc = <<"catch", k>>
  /\ exitCode' = exitStatus(TRUE)
  /\ pc' = <<"exited", 1>>
  /\ UNCHANGED <<network, cache, cacheAge, downloads, statuses, zipToTracts, tractToNta,
                 neighborhoodClusters, outputDir, skippedInvalid>>
  /\ UNCHANGED <<clock, earlier, callVars>>

Next ==
  \/ setRunning
  \/ runPhase1
  \/ runPhase2
  \/ runPhase3
  \/ runPhase4
  \/ runPhase5
  \/ exitSuccess
  \/ exitFailure

Spec == Init /\ [][Next]_vars

----------------------------------------------------------------------------
(* The pipeline launched a second time on the cache and the output         *)
(* directory that the first launch left                                     *)

\* the starts that are followed through a second launch: the join tables
\* against every geometry, a missing file, a faulty geometry, a download, a
\* previous output
RepeatedInputs ==
  {in \in CachedInputs :
     in.cache.hud_zip_tract.exists => in.cache.hud_zip_tract.data \in JoinTables}
  \cup FaultyInputs \cup NtaInputs \cup RerunInputs
  \cup {Inputs(EmptyCache, AllFresh, NetworkUp, NoOutput)}

RerunInit ==
  /\ Init
  /\ Inputs(cache, cacheAge, network, outputDir) \in RepeatedInputs

\* a new process: new PipelineMaster(), later than the first one; the files
\* on disk are those the first process left
launchAgain ==
  /\ pc[1] = "exited"
  /\ ~earlier.ran
  /\ earlier' = [ran |-> TRUE, files |-> outputDir]
  /\ clock' = clock + 1
  /\ pc' = <<"begin", 1>>
  /\ downloads' = [hud_zip_tract |-> NotRun(cache.hud_zip_tract, cacheAge.hud_zip_tract),
                   census_tiger |-> NotRun(cache.census_tiger, cacheAge.census_tiger),
                   nta_geojson |-> NotRun(cache.nta_geojson, cacheAge.nta_geojson)]
  /\ statuses' = [k \in Phases |-> "pending"]
  /\ exitCode' = NOT_EXITED
  /\ zipToTracts' = <<>>
  /\ tractToNta' = <<>>
  /\ neighborhoodClusters' = <<>>
  /\ skippedInvalid' = 0
  /\ UNCHANGED <<network, cache, cacheAge, outputDir, callVars>>

RerunNext ==
  \/ Next
  \/ launchAgain

RerunSpec == RerunInit /\ [][RerunNext]_vars

----------------------------------------------------------------------------
(* utils/validator.ts: validateZipToTractOutput called on rows of its caller's *)
(* choice (the class is exported; ZipToTractRow allows a null weight)          *)

\* the pipeline itself is not launched
PipelineIdle ==
  /\ pc = <<"begin", 1>>
  /\ cache = EmptyCache
  /\ cacheAge = AllFresh
  /\ network = NetworkDown
  /\ outputDir = NoOutput
  /\ downloads = [hud_zip_tract |-> NotRun(NoFile, 0), census_tiger |-> NotRun(NoFile, 0),
                  nta_geojson |-> NotRun(NoFile, 0)]
  /\ statuses = [k \in Phases |-> "pending"]
  /\ exitCode = NOT_EXITED
  /\ zipToTracts = <<>>
  /\ tractToNta = <<>>
  /\ neighborhoodClusters = <<>>
  /\ skippedInvalid = 0
  /\ clock = 0
  /\ earlier = NoEarlierRun

\* rows as the mapper builds them and rows with the 20-digit identifier the
\* validator asks for, each weight a number or null
CrosswalkRows ==
  {[outputRowOf(validRecordOf(r)) EXCEPT !.tract_geoid = g \o @, !.weight_res = w1,
                                         !.weight_tot = w2, !.nta_code = BX35] :
     r \in {BaseRow, AliasRow}, g \in { <<>>, <<0,0,0,0,0,0,0,0,0>> },
     w1 \in {6, NULL}, w2 \in {4, NULL}}

ValidatorInit ==
  /\ PipelineIdle
  /\ checkedRows \in SeqsUpTo(CrosswalkRows, MaxRows)
  /\ validation = NoResult
  /\ geoMetrics = <<>>
  /\ geoCellCounts = <<>>
  /\ suppression = NoResult
  /\ completeness = NoResult

\* validator.validateZipToTractOutput(rows, new Set(BRONX_ZIPS))
validateOutput ==
  /\ ~validation.returned
  /\ validation' = [returned |-> TRUE,
                    result |-> validateZipToTractOutput(checkedRows, BRONX_ZIPS)]
  /\ UNCHANGED <<runVars, clock, earlier, checkedRows, geoMetrics, geoCellCounts,
                 suppression, completeness>>

ValidatorSpec == ValidatorInit /\ [][validateOutput]_vars

----------------------------------------------------------------------------
(* backend/agents/etl/suppressionAgent.ts                                   *)
(* A metrics object is a function from metric names to a value or NULL; the *)
(* names 1, 2, ... stand for the keys in the order Object.entries lists     *)
(* them.  A cellCounts object may lack keys: its domain is a set of names.  *)

MINIMUM_CELL_SIZE == 11

suppressMetric(metric, cellCount, value) ==
  IF cellCount = NULL
    THEN [value |-> value,
          decision |-> [metric |-> metric, cellCount |-> cellCount, isSuppressed |-> FALSE]]
  ELSE IF cellCount < MINIMUM_CELL_SIZE
    THEN [value |-> NULL,
          decision |-> [metric |-> metric, cellCount |-> cellCount, isSuppressed |-> TRUE]]
  ELSE [value |-> value,
        decision |-> [metric |-> metric, cellCount |-> cellCount, isSuppressed |-> FALSE]]

\* the metrics object after the in-place suppression, and the returned
\* SuppressionResult without its timestamp and its fixed note
applySuppressionToGeography(metrics, cellCounts) ==
  LET \* cellCounts[metricName] || null: a missing key and the count 0 give null
      cellCount(m) == IF m \in DOMAIN cellCounts /\ cellCounts[m] # 0
                        THEN cellCounts[m] ELSE NULL
      decisions == [m \in DOMAIN metrics |->
                      suppressMetric(m, cellCount(m), metrics[m]).decision]
      hidden == {m \in DOMAIN metrics : decisions[m].isSuppressed}
  IN  [metrics |-> [m \in DOMAIN metrics |-> IF m \in hidden THEN NULL ELSE metrics[m]],
       result |-> [suppressed |-> decisions,
                   suppressedCount |-> Cardinality(hidden),
                   unsuppressedCount |-> Cardinality(DOMAIN metrics \ hidden)]]

\* violations holds the names of the metrics the messages are about
validateSuppressionComplete(metrics, cellCounts) ==
  LET violations ==
        {m \in DOMAIN cellCounts :
           /\ cellCounts[m] # NULL
           /\ cellCounts[m] < MINIMUM_CELL_SIZE
           /\ (m \notin DOMAIN metrics \/ metrics[m] # NULL)}
  IN  [isValid |-> violations = {}, violations |-> violations]

\* a geography with up to MaxMetrics metrics, each a value or null, and for
\* any of them a cell count: null, 0, just below or at the minimum
SuppressionInit ==
  /\ PipelineIdle
  /\ checkedRows = <<>>
  /\ validation = NoResult
  /\ \E n \in 1..MaxMetrics :
       /\ geoMetrics \in [1..n -> {NULL, 5}]
       /\ geoCellCounts \in
            UNION {[D -> {NULL, 0, MINIMUM_CELL_SIZE - 1, MINIMUM_CELL_SIZE}] :
                     D \in SUBSET (1..n)}
  /\ suppression = NoResult
  /\ completeness = NoResult

\* applySuppressionToGeography(geographyId, metrics, cellCounts)
applySuppression ==
  /\ ~suppression.returned
  /\ LET applied == applySuppressionToGeography(geoMetrics, geoCellCounts)
     IN  /\ geoMetrics' = applied.metrics
         /\ suppression' = [returned |-> TRUE, result |-> applied.result]
  /\ UNCHANGED <<runVars, clock, earlier, checkedRows, validation, geoCellCounts,
                 completeness>>

\* validateSuppressionComplete(metrics, cellCounts) on the same two objects
validateComplete ==
  /\ suppression.returned
  /\ ~completeness.returned
  /\ completeness' =
       [returned |-> TRUE, result |-> validateSuppressionComplete(geoMetrics, geoCellCounts)]
  /\ UNCHANGED <<runVars, clock, earlier, checkedRows, validation, geoMetrics,
                 geoCellCounts, suppression>>

SuppressionNext ==
  \/ applySuppression
  \/ validateComplete

SuppressionSpec == SuppressionInit /\ [][SuppressionNext]_vars

----------------------------------------------------------------------------
(* Properties *)

Done == statuses[5] = "complete"

hudTable == cache.hud_zip_tract.data
report == outputDir.validation_report.data
writtenRows == outputDir.zip_to_tracts_json.data

\* the records of the weight table that pass the mapper's filter, as rows
retainedRows ==
  LET kept == filterBronxRecords(hudTable)
  IN  [i \in 1..Len(kept) |-> outputRowOf(kept[i])]

PairsDistinct(rows) ==
  \A i, j \in 1..Len(rows) :
     i # j => <<rows[i].zip, rows[i].tract_geoid>> # <<rows[j].zip, rows[j].tract_geoid>>

\* C1: no two rows of the crosswalk, in memory or in the written file, share
\* the same (zip, tract_geoid) pair.
C1_Uniqueness ==
  /\ PairsDistinct(zipToTracts)
  /\ outputDir.zip_to_tracts_json.exists => PairsDistinct(writtenRows)

\* the weight table held the same pair twice and the written crosswalk holds it once
C1_Witness ==
  /\ Done
  /\ ~PairsDistinct(retainedRows)
  /\ outputDir.zip_to_tracts_json.exists
  /\ Len(writtenRows) = 1

CountyCode(countyFips) ==
  IF Len(countyFips) = 5 THEN SubSeq(countyFips, 3, 5) ELSE countyFips

\* C2: every emitted row has an 11-digit tract_geoid that is the 2-digit state
\* code of its state_fips, the 3-digit county code of its county_fips and its
\* own 6-digit tract field.
C2_GeoidOfOwnFields ==
  \A i \in 1..Len(zipToTracts) :
     LET row == zipToTracts[i]
         state == padStart(row.state_fips, 2, 0)
     IN  /\ Len(row.tract_geoid) = 11
         /\ IsDigits(row.tract_geoid)
         /\ Len(state) = 2
         /\ Len(row.tract) = 6
         /\ row.tract_geoid = state \o CountyCode(row.county_fips) \o row.tract

WellFormedBesidesGeoid(row) ==
  /\ Len(row.zip) = 5 /\ IsDigits(row.zip)
  /\ Len(row.county_fips) \in 2..5 /\ IsDigits(row.county_fips)
  /\ row.weight_res \in 0..ONE
  /\ row.weight_tot \in 0..ONE

ErrorsAt(i) == {k \in 1..Len(report.errors) : report.errors[k].location = i}

\* C3: in the report, a well-formed row with an 11-digit tract_geoid has no
\* error and a row whose tract_geoid has another digit count has one.
C3_GeoidCheckIsElevenDigits ==
  (Done /\ PairsDistinct(zipToTracts)) =>
    \A i \in 1..Len(zipToTracts) :
       LET row == zipToTracts[i]
       IN  /\ (Len(row.tract_geoid) = 11 /\ IsDigits(row.tract_geoid)
               /\ WellFormedBesidesGeoid(row)) => ErrorsAt(i) = {}
           /\ Len(row.tract_geoid) # 11 => ErrorsAt(i) # {}

\* C4: a report is invalid exactly when it lists an error; warnings alone
\* leave it valid.
C4_IsValidIffNoErrors ==
  outputDir.validation_report.exists =>
    (report.isValid = FALSE <=> Len(report.errors) > 0)

\* a report with missing-ZIP warnings and no error, which is valid
C4_Witness ==
  /\ outputDir.validation_report.exists
  /\ Len(report.errors) = 0
  /\ \E k \in 1..Len(report.warnings) : report.warnings[k].type = "missing_zip"
  /\ report.isValid

\* C5: in every cluster the counts are the numbers of distinct tracts and
\* ZIPs listed, and every listed tract has a crosswalk row with the cluster's code.
C5_ClusterConsistency ==
  \A k \in 1..Len(neighborhoodClusters) :
     LET cluster == neighborhoodClusters[k]
     IN  /\ cluster.tract_count = Cardinality(Range(cluster.tract_geoids))
         /\ cluster.zip_count = Cardinality(Range(cluster.zips))
         /\ \A g \in Range(cluster.tract_geoids) :
              \E i \in 1..Len(zipToTracts) :
                 /\ zipToTracts[i].tract_geoid = g
                 /\ zipToTracts[i].nta_code = cluster.nta_code

\* a cluster built from three rows that share a tract and a ZIP
C5_Witness ==
  \E k \in 1..Len(neighborhoodClusters) :
     /\ neighborhoodClusters[k].tract_count = 2
     /\ neighborhoodClusters[k].zip_count = 2
     /\ Cardinality({i \in 1..Len(zipToTracts) :
                       zipToTracts[i].nta_code = neighborhoodClusters[k].nta_code}) = 3

\* the GEOIDs of the in-scope tract features whose representative point lies
\* in no neighborhood polygon
tractsOutsideEveryNta ==
  {cache.census_tiger_geojson.data[i].properties.GEOID :
     i \in {i \in 1..Len(cache.census_tiger_geojson.data) :
              LET f == cache.census_tiger_geojson.data[i]
              IN  /\ startsWith(f.properties.GEOID, DEFAULT_CONFIG.county_fips)
                  /\ f.geometry.type \in {"Polygon", "MultiPolygon"}
                  /\ ~tractCentroid(f.geometry).threw
                  /\ \A k \in 1..Len(cache.nta_geojson.data) :
                        ~pointInPolygon(tractCentroid(f.geometry).point,
                                        cache.nta_geojson.data[k].geometry)}}

RowsOfTract(rows, g) == {i \in 1..Len(rows) : rows[i].tract_geoid = g}

\* C6: a tract whose point lies in no neighborhood polygon gets the record
\* UNASSIGNED / low; it is in no cluster's tract list, no cluster has the code
\* UNASSIGNED, and all its crosswalk rows are written with nta_code UNASSIGNED.
C6_UnassignedTract ==
  \A g \in tractsOutsideEveryNta :
     /\ statuses[3] = "complete" =>
          /\ \E k \in 1..Len(tractToNta) : tractToNta[k].tract_geoid = g
          /\ \A k \in 1..Len(tractToNta) :
                tractToNta[k].tract_geoid = g =>
                  tractToNta[k].nta_code = UNASSIGNED /\ tractToNta[k].confidence = "low"
     /\ statuses[4] = "complete" =>
          \A k \in 1..Len(neighborhoodClusters) :
             /\ ~includes(neighborhoodClusters[k].tract_geoids, g)
             /\ neighborhoodClusters[k].nta_code # UNASSIGNED
     /\ (Done /\ RowsOfTract(retainedRows, g) # {}) =>
          /\ outputDir.zip_to_tracts_json.exists
          /\ Cardinality(RowsOfTract(writtenRows, g))
               = Cardinality({<<retainedRows[i].zip, retainedRows[i].tract_geoid>> :
                                i \in RowsOfTract(retainedRows, g)})
          /\ \A i \in RowsOfTract(writtenRows, g) : writtenRows[i].nta_code = UNASSIGNED

\* a tract outside every polygon with a written row, next to a cluster of another tract
C6_Witness ==
  /\ Done
  /\ \E g \in tractsOutsideEveryNta : RowsOfTract(writtenRows, g) # {}
  /\ Len(neighborhoodClusters) > 0

ZipsOf(rows) == {rows[i].zip : i \in 1..Len(rows)}

MissingZipWarnings(z) ==
  {k \in 1..Len(report.warnings) :
     report.warnings[k].type = "missing_zip" /\ report.warnings[k].zip = z}

\* C7: the ZIPs of the final crosswalk are configured ZIPs, and the report
\* has exactly one warning naming each configured ZIP that is absent and none
\* naming one that is present.
C7_ZipCoverage ==
  /\ ZipsOf(zipToTracts) \subseteq Range(BRONX_ZIPS)
  /\ Done =>
       \A z \in Range(BRONX_ZIPS) :
          Cardinality(MissingZipWarnings(z)) = IF z \in ZipsOf(zipToTracts) THEN 0 ELSE 1

\* the table held a row of a ZIP outside the set and a row that was kept
C7_Witness ==
  /\ Done
  /\ \E i \in 1..Len(hudTable) :
        /\ normalizeRow(hudTable[i]).county_fips = DEFAULT_CONFIG.county_fips
        /\ normalizeRow(hudTable[i]).zip_code = <<1,0,0,0,1>>
  /\ Len(zipToTracts) = 1

\* some (zip, tract_geoid) pair occurs twice among the retained records
RawDuplicate == cache.hud_zip_tract.exists /\ ~PairsDistinct(retainedRows)

droppedDuplicates == Len(retainedRows) - Len(zipToTracts)

overweightRecords ==
  {i \in 1..Len(hudTable) :
     LET n == normalizeRow(hudTable[i])
     IN  /\ n.county_fips = DEFAULT_CONFIG.county_fips
         /\ n.zip_code \in Range(BRONX_ZIPS)
         /\ n.tract # <<>>
         /\ (n.res_ratio = 15 \/ n.tot_ratio = 15)}

NotInOutput ==
  /\ \A i \in 1..Len(zipToTracts) :
        zipToTracts[i].weight_res # 15 /\ zipToTracts[i].weight_tot # 15
  /\ Len(zipToTracts) <= Len(hudTable) - Cardinality(overweightRecords)

InRange(rows) ==
  \A i \in 1..Len(rows) :
     /\ 0 <= rows[i].weight_res /\ rows[i].weight_res <= ONE
     /\ 0 <= rows[i].weight_tot /\ rows[i].weight_tot <= ONE

\* C10: every row of the crosswalk, in memory or written, has both weights
\* in [0, 1].
C10_WeightRange ==
  /\ InRange(zipToTracts)
  /\ outputDir.zip_to_tracts_json.exists => InRange(writtenRows)

\* a non-numeric weight was kept as 0 while a weight above 1 was in the table
C10_Witness ==
  /\ Done
  /\ \E i \in 1..Len(hudTable) : hudTable[i].RES_RATIO.kind = "text"
  /\ \E i \in 1..Len(hudTable) : hudTable[i].TOT_RATIO = NumW(15)
  /\ outputDir.zip_to_tracts_json.exists
  /\ Len(writtenRows) = 1 /\ writtenRows[1].weight_res = 0

----------------------------------------------------------------------------
(* Orchestration *)

Running == {k \in Phases : statuses[k] = "running"}
Complete == {k \in Phases : statuses[k] = "complete"}
Failed == {k \in Phases : statuses[k] = "error"}

\* C11: a phase from 2 to 5 is running only when all the phases before it
\* are complete, and at most one phase is running at any time.
C11_PhaseOrder ==
  /\ \A k \in 2..5 : k \in Running => (1..(k - 1)) \subseteq Complete
  /\ Cardinality(Running) <= 1

\* phase 5 running on top of four complete phases
C11_Witness ==
  /\ 5 \in Running
  /\ Complete = 1..4

\* C12: once a phase has failed no later phase has left 'pending', the only
\* step the process then takes is the exit with status 1, and its exit
\* status is never 0; the exit status is 0 only with the five phases
\* complete, and with the five phases complete the only step is the exit
\* with status 0.
C12_FailureAborts ==
  [][/\ \A k \in Failed :
          /\ \A j \in (k + 1)..5 : statuses[j] = "pending"
          /\ exitCode \in {NOT_EXITED, 1}
          /\ exitCode' = 1
          /\ statuses' = statuses
     /\ exitCode = 0 => Complete = Phases
     /\ Complete = Phases => (exitCode \in {NOT_EXITED, 0} /\ exitCode' = 0)]_vars

\* phase 3 failed after two complete phases and the process exited with 1
C12_Witness ==
  /\ Failed = {3}
  /\ Complete = {1, 2}
  /\ statuses[4] = "pending" /\ statuses[5] = "pending"
  /\ exitCode = 1

----------------------------------------------------------------------------
(* Acquisition *)

Sources == {"hud_zip_tract", "census_tiger", "nta_geojson"}

PrimaryUrl(s) ==
  IF s = "hud_zip_tract" THEN "hud_url"
  ELSE IF s = "census_tiger" THEN "census_tiger_url" ELSE "nta_url"

SourceName(s) ==
  IF s = "hud_zip_tract" THEN "HUD data"
  ELSE IF s = "census_tiger" THEN "Census TIGER data" ELSE "NTA boundaries"

\* the step in which phase 1 runs the three acquisitions
Acquires == pc = <<"body", 1>> /\ pc' # pc

\* the response that ends the redirect chain of a URL
FinalResponse(url) == network[url][Len(network[url])]
FetchFails(url) == FinalResponse(url).error \/ FinalResponse(url).statusCode # 200
CauseOf(url) ==
  IF FinalResponse(url).error THEN [kind |-> "request error", statusCode |-> 0]
  ELSE [kind |-> "HTTP", statusCode |-> FinalResponse(url).statusCode]

UsableCopy(s) ==
  cache[s].exists /\ cacheAge[s] < DEFAULT_CONFIG.cache_max_age_days

\* C13: an acquisition with a cached copy younger than the maximum age
\* returns the cached bytes, issues no request and leaves the cache file as
\* it is; any other acquisition issues a request to the source's URL and,
\* when it succeeds, returns the bytes of the final response and leaves
\* exactly these bytes in the cache file.
C13_CacheOrFetch ==
  [][Acquires =>
       \A s \in Sources :
         LET d == downloads'[s]
         IN  IF UsableCopy(s)
               THEN /\ d.ran /\ ~d.threw
                    /\ d.data = cache[s].data
                    /\ d.requests = <<>>
                    /\ cache'[s] = cache[s]
                    /\ cacheAge'[s] = cacheAge[s]
               ELSE /\ d.ran
                    /\ d.requests # <<>>
                    /\ d.requests[1] = [url |-> PrimaryUrl(s), hop |-> 1]
                    /\ ~d.threw =>
                         /\ d.data = FinalResponse(d.requests[Len(d.requests)].url).body
                         /\ cache'[s] = File(d.data)]_vars

\* the weight table was fetched over the network into the cache while the
\* neighborhood file came from its cached copy
C13_Witness ==
  /\ statuses[1] = "complete"
  /\ downloads.hud_zip_tract.requests # <<>>
  /\ ~downloads.hud_zip_tract.threw
  /\ cache.hud_zip_tract = File(downloads.hud_zip_tract.data)
  /\ downloads.nta_geojson.ran
  /\ downloads.nta_geojson.requests = <<>>
  /\ downloads.nta_geojson.data = cache.nta_geojson.data

FallbackRequests(requests) ==
  {i \in 1..Len(requests) : requests[i].url = "alternativeUrl" /\ requests[i].hop = 1}

\* C14: only the weight-table acquisition requests the fallback URL, only
\* after all its requests to the primary URL and a failed primary fetch, and
\* once; the two other acquisitions request nothing but their primary URL;
\* an acquisition whose every fetch failed throws an error that names the
\* source and the cause, and its cache file is as before.
C14_FallbackAndFailure ==
  [][Acquires =>
       \A s \in Sources :
         LET d == downloads'[s]
             fallback == FallbackRequests(d.requests)
             attempted == {d.requests[i].url : i \in 1..Len(d.requests)}
         IN  /\ fallback # {} =>
                  /\ s = "hud_zip_tract"
                  /\ FetchFails("hud_url")
                  /\ Cardinality(fallback) = 1
                  /\ \A i, j \in 1..Len(d.requests) :
                        (d.requests[i].url = "hud_url"
                           /\ d.requests[j].url = "alternativeUrl") => i < j
             /\ s # "hud_zip_tract" => attempted \subseteq {PrimaryUrl(s)}
             /\ (attempted # {} /\ \A u \in attempted : FetchFails(u)) =>
                  /\ d.threw
                  /\ d.error.source = SourceName(s)
                  /\ d.error.causes # <<>>
                  /\ d.error.causes[1] = CauseOf(PrimaryUrl(s))
                  /\ cache'[s] = cache[s]]_vars

\* the weight table's primary fetch and its fallback fetch both failed
C14_Witness ==
  /\ statuses[1] = "complete"
  /\ downloads.hud_zip_tract.threw
  /\ FallbackRequests(downloads.hud_zip_tract.requests) # {}
  /\ cache.hud_zip_tract.exists

\* C15: the run gets past phase 1 after a failed acquisition only if the
\* failed source has a cache entry (failOnError is false in the pipeline).
C15_NoProceedWithoutCache ==
  statuses[2] # "pending" =>
    \A s \in Sources : downloads[s].threw => cache[s].exists

\* C16: no fetch issues a third request along a redirect chain, and a fetch
\* whose second response is a redirect fails.
C16_OneRedirectHop ==
  \A s \in Sources :
    /\ \A i \in 1..Len(downloads[s].requests) : downloads[s].requests[i].hop <= 2
    /\ (/\ downloads[s].requests # <<>>
        /\ Len(network[PrimaryUrl(s)]) > 2
        /\ s # "hud_zip_tract") => downloads[s].threw

----------------------------------------------------------------------------
(* Spatial join *)

tractFeatures == cache.census_tiger_geojson.data
ntaFeatures == cache.nta_geojson.data

InScope(f) == startsWith(f.properties.GEOID, DEFAULT_CONFIG.county_fips)

RecordsOf(g) == {i \in 1..Len(tractToNta) : tractToNta[i].tract_geoid = g}

\* phase 3 has run its join, to the end or to an exception
Joined == statuses[3] \in {"complete", "error"} /\ cache.census_tiger_geojson.exists
          /\ cache.nta_geojson.exists /\ tractFeatures # <<>> /\ ntaFeatures # <<>>

\* the centroid of the tract cannot be computed: turf refuses its ring, or
\* there is no ring
CentroidFails(f) ==
  /\ f.geometry.type \in {"Polygon", "MultiPolygon"}
  /\ \/ f.geometry.coordinates = <<>>
     \/ (f.geometry.type = "Polygon" /\ ~f.geometry.coordinates[1].ok)
     \/ (f.geometry.type = "MultiPolygon"
           /\ (f.geometry.coordinates[1] = <<>> \/ ~f.geometry.coordinates[1][1].ok))

\* C17: when the centroid of an in-scope tract cannot be computed, the join
\* still completes, that tract has one record, UNASSIGNED with confidence
\* low, and every other in-scope tract has its record.
C17_ErrorCaughtPerTract ==
  Joined =>
    \A i \in 1..Len(tractFeatures) :
      (InScope(tractFeatures[i]) /\ CentroidFails(tractFeatures[i])) =>
        /\ statuses[3] = "complete"
        /\ \E r \in RecordsOf(tractFeatures[i].properties.GEOID) :
              tractToNta[r].nta_code = UNASSIGNED /\ tractToNta[r].confidence = "low"
        /\ \A j \in 1..Len(tractFeatures) :
              InScope(tractFeatures[j]) => RecordsOf(tractFeatures[j].properties.GEOID) # {}

\* the representative point of a tract: the centroid of its first ring, the
\* first position of that ring when no centroid can be computed, NoPoint
\* when there is neither
PointOf(f) ==
  LET rings == IF f.geometry.type = "Polygon" THEN f.geometry.coordinates
               ELSE IF f.geometry.coordinates = <<>> THEN <<>>
               ELSE f.geometry.coordinates[1]
  IN  IF rings = <<>> THEN NoPoint
      ELSE IF rings[1].ok THEN rings[1].centroid ELSE rings[1].first

Contains(nta, point) ==
  IF nta.geometry.type = "Polygon"
    THEN nta.geometry.coordinates.ok /\ point \in nta.geometry.coordinates.inside
    ELSE \E k \in 1..Len(nta.geometry.coordinates) :
            /\ nta.geometry.coordinates[k].ok
            /\ point \in nta.geometry.coordinates[k].inside

CodeOf(nta) ==
  LET p == nta.properties
  IN  IF p.NTA_CODE # <<>> THEN p.NTA_CODE
      ELSE IF p.NTA_code # <<>> THEN p.NTA_code
      ELSE IF p.NTA # <<>> THEN p.NTA
      ELSE IF p.nta_code # <<>> THEN p.nta_code ELSE UNKNOWN

\* C18: after the join every in-scope tract has exactly one record: the code
\* of the first neighborhood polygon containing its point with confidence
\* high, or UNASSIGNED with confidence low when no polygon contains it or
\* its geometry type is unsupported; high never goes with UNASSIGNED.
C18_OneRecordPerTract ==
  Joined =>
    /\ \A i \in 1..Len(tractFeatures) :
         LET f == tractFeatures[i]
             recs == RecordsOf(f.properties.GEOID)
             supported == f.geometry.type \in {"Polygon", "MultiPolygon"}
             hits == IF supported
                       THEN {k \in 1..Len(ntaFeatures) : Contains(ntaFeatures[k], PointOf(f))}
                       ELSE {}
         IN  InScope(f) =>
               /\ Cardinality(recs) = 1
               /\ \A r \in recs :
                    IF hits # {}
                      THEN /\ tractToNta[r].nta_code = CodeOf(ntaFeatures[Min(hits)])
                           /\ tractToNta[r].confidence = "high"
                      ELSE /\ tractToNta[r].nta_code = UNASSIGNED
                           /\ tractToNta[r].confidence = "low"
    /\ \A r \in 1..Len(tractToNta) :
         tractToNta[r].confidence = "high" => tractToNta[r].nta_code # UNASSIGNED

----------------------------------------------------------------------------
(* Output *)

\* the step in which phase 5 writes the files and validates
Assembles == pc = <<"body", 5>> /\ pc' # pc

\* C19: when the validator reports errors for the crosswalk, phase 5 still
\* writes the report, the report has isValid false and lists the errors, and
\* phase 5 ends complete.
C19_ErrorsDoNotAbort ==
  [][(Assembles /\ Len(validateZipToTractOutput(zipToTracts, BRONX_ZIPS).errors) > 0) =>
       /\ outputDir'.validation_report.exists
       /\ outputDir'.validation_report.data.isValid = FALSE
       /\ outputDir'.validation_report.data.errors =
            validateZipToTractOutput(zipToTracts, BRONX_ZIPS).errors
       /\ \A i \in 1..Len(zipToTracts) :
            validateZipToTractRow(zipToTracts[i]) # <<>> =>
              \E k \in 1..Len(outputDir'.validation_report.data.errors) :
                 outputDir'.validation_report.data.errors[k].location = i
       /\ statuses'[5] = "complete"
       /\ pc' = <<"begin", 6>>]_vars

\* a run that ended with exit status 0 and a report listing errors
C19_Witness ==
  /\ exitCode = 0
  /\ statuses[5] = "complete"
  /\ zipToTracts # <<>>
  /\ Len(report.errors) > 0
  /\ report.isValid = FALSE

\* C20: when phase 5 is complete the two crosswalk files and the cluster
\* file hold exactly the collections of this run.
C20_OutputsRebuilt ==
  statuses[5] = "complete" =>
    /\ outputDir.zip_to_tracts_json = File(zipToTracts)
    /\ outputDir.zip_to_tracts_csv = File(stringify(zipToTracts))
    /\ outputDir.neighborhood_clusters_json = File(neighborhoodClusters)

----------------------------------------------------------------------------
(* Properties of the mapper's filter, the merge, the clusters and the order *)

KeysOf(rows) == {<<rows[i].zip, rows[i].tract_geoid>> : i \in 1..Len(rows)}

InUnitRange(w) == w >= 0 /\ w <= ONE

\* the four conditions under which a row of the weight table is in the output
PassesFilter(record) ==
  LET n == normalizeRow(record)
  IN  /\ n.county_fips = DEFAULT_CONFIG.county_fips
      /\ n.zip_code \in Range(BRONX_ZIPS)
      /\ n.tract # <<>>
      /\ InUnitRange(n.res_ratio) /\ InUnitRange(n.tot_ratio)

KeyOfRecord(record) ==
  LET n == normalizeRow(record)
  IN  <<n.zip_code,
        createGeoid(OrStr(n.state_fips, DEFAULT_CONFIG.state_fips), n.county_fips, n.tract)>>

\* the rows of the weight table with a missing ZIP, county or tract field or
\* with a weight outside [0,1]
MalformedRecords ==
  {i \in 1..Len(hudTable) :
     LET n == normalizeRow(hudTable[i])
     IN  \/ n.zip_code = <<>> \/ n.county_fips = <<>> \/ n.tract = <<>>
         \/ ~InUnitRange(n.res_ratio) \/ ~InUnitRange(n.tot_ratio)}

\* C23: once phase 2 has run, the keys of the crosswalk are exactly the keys
\* of the rows of the weight table that pass the filter (target county, ZIP
\* of the fixed set, tract present, both weights in [0,1]); no other row
\* fails the phase; and every row with a missing ZIP, county or tract field
\* or an out-of-range weight is counted in the "skipped invalid" number.
C23_FilterCharacterisesOutput ==
  cache.hud_zip_tract.exists =>
    /\ statuses[2] # "error"
    /\ statuses[2] = "complete" =>
         /\ KeysOf(zipToTracts) =
              {KeyOfRecord(hudTable[i]) : i \in {j \in 1..Len(hudTable) : PassesFilter(hudTable[j])}}
         /\ skippedInvalid >= Cardinality(MalformedRecords)

\* the spatial-join records of tract g
JoinRecordsOf(mappings, g) == {k \in 1..Len(mappings) : mappings[k].tract_geoid = g}

\* C24: the step that merges the join into the crosswalk keeps the number
\* and the order of the rows and every field but nta_code and nta_name; a
\* row whose tract has a join record gets that record's code and name, a
\* row whose tract has none gets the code UNASSIGNED.
C24_MergeFrame ==
  [][(pc = <<"body", 3>> /\ statuses'[3] = "complete") =>
       /\ Len(zipToTracts') = Len(zipToTracts)
       /\ \A i \in 1..Len(zipToTracts) :
             LET old == zipToTracts[i]
                 new == zipToTracts'[i]
                 recs == JoinRecordsOf(tractToNta', old.tract_geoid)
             IN  /\ [new EXCEPT !.nta_code = old.nta_code, !.nta_name = old.nta_name] = old
                 /\ \A k \in recs : /\ new.nta_code = tractToNta'[k].nta_code
                                     /\ new.nta_name = tractToNta'[k].nta_name
                 /\ recs = {} => new.nta_code = UNASSIGNED]_vars

\* the merge has given one row the code and the name of its tract's record
\* and left another row, whose tract has no record, UNASSIGNED
C24_Witness ==
  /\ pc = <<"begin", 4>>
  /\ \E i, j \in 1..Len(zipToTracts) :
        /\ zipToTracts[i].nta_code = BX35
        /\ zipToTracts[i].nta_name # <<>>
        /\ JoinRecordsOf(tractToNta, zipToTracts[i].tract_geoid) # {}
        /\ JoinRecordsOf(tractToNta, zipToTracts[j].tract_geoid) = {}
        /\ zipToTracts[j].nta_code = UNASSIGNED

\* the clusters whose tract list holds tract g
ClustersOfTract(clusters, g) ==
  {k \in 1..Len(clusters) : includes(clusters[k].tract_geoids, g)}

OneNeighborhoodPerTract(rows, clusters) ==
  /\ \A k \in 1..Len(clusters) : \A g \in Range(clusters[k].tract_geoids) :
        ClustersOfTract(clusters, g) = {k}
  /\ \A i, j \in 1..Len(rows) :
        rows[i].tract_geoid = rows[j].tract_geoid => rows[i].nta_code = rows[j].nta_code

\* C25: a tract is listed by at most one cluster, and the crosswalk rows of
\* one tract all carry the same nta_code, in memory and in the files written.
C25_TractInOneNeighborhood ==
  /\ OneNeighborhoodPerTract(zipToTracts, neighborhoodClusters)
  /\ (Done /\ outputDir.zip_to_tracts_json.exists
         /\ outputDir.neighborhood_clusters_json.exists) =>
       OneNeighborhoodPerTract(writtenRows, outputDir.neighborhood_clusters_json.data)

\* a tract shared by two ZIPs has been assigned and clustered, next to
\* another cluster
C25_Witness ==
  /\ Done
  /\ Len(neighborhoodClusters) = 2
  /\ \E i, j \in 1..Len(zipToTracts) :
        /\ zipToTracts[i].zip # zipToTracts[j].zip
        /\ zipToTracts[i].tract_geoid = zipToTracts[j].tract_geoid
        /\ zipToTracts[i].nta_code # UNASSIGNED
        /\ ClustersOfTract(neighborhoodClusters, zipToTracts[i].tract_geoid) # {}

\* a < b lexicographically: a is a proper prefix of b, or is smaller at the
\* first position where the two differ
Before(a, b) ==
  \E i \in 1..Len(b) :
     /\ Len(a) >= i - 1
     /\ SubSeq(a, 1, i - 1) = SubSeq(b, 1, i - 1)
     /\ (Len(a) = i - 1 \/ a[i] < b[i])

StrictlyAscending(list) ==
  \A i \in 1..(Len(list) - 1) : Before(list[i], list[i + 1])

RowsAscending(rows) ==
  \A i \in 1..(Len(rows) - 1) :
     \/ Before(rows[i].zip, rows[i + 1].zip)
     \/ /\ rows[i].zip = rows[i + 1].zip
        /\ Before(rows[i].tract_geoid, rows[i + 1].tract_geoid)

ClustersAscending(clusters) ==
  /\ StrictlyAscending([k \in 1..Len(clusters) |-> clusters[k].nta_code])
  /\ \A k \in 1..Len(clusters) :
        /\ StrictlyAscending(clusters[k].tract_geoids)
        /\ StrictlyAscending(clusters[k].zips)

\* C27: the crosswalk is in strictly ascending order of (zip, tract_geoid),
\* the clusters are in strictly ascending order of nta_code, and the tract
\* and ZIP lists of every cluster are strictly ascending, in memory and in
\* the files phase 5 writes.
C27_CanonicalOrder ==
  /\ RowsAscending(zipToTracts)
  /\ ClustersAscending(neighborhoodClusters)
  /\ Done =>
       /\ outputDir.zip_to_tracts_json.exists => RowsAscending(writtenRows)
       /\ outputDir.zip_to_tracts_csv.exists =>
            outputDir.zip_to_tracts_csv.data = stringify(writtenRows)
       /\ outputDir.neighborhood_clusters_json.exists =>
            ClustersAscending(outputDir.neighborhood_clusters_json.data)

\* the weight table listed its rows in descending order; three rows and a
\* cluster with two ZIPs were written
C27_Witness ==
  /\ Done
  /\ Len(hudTable) >= 2
  /\ \A i \in 1..(Len(hudTable) - 1) :
        Before(normalizeRow(hudTable[i + 1]).zip_code, normalizeRow(hudTable[i]).zip_code)
  /\ Len(writtenRows) >= 2
  /\ \E k \in 1..Len(neighborhoodClusters) : Len(neighborhoodClusters[k].zips) = 2

AssignedRows(rows) == {i \in 1..Len(rows) : rows[i].nta_code # UNASSIGNED}

\* C30: once phase 4 has run, the codes of the clusters are exactly the
\* nta_codes other than UNASSIGNED found in the crosswalk, and the cluster
\* of every such row lists the row's tract_geoid and the row's zip.
C30_ClusteringLosesNothing ==
  statuses[4] = "complete" =>
    /\ {neighborhoodClusters[k].nta_code : k \in 1..Len(neighborhoodClusters)}
         = {zipToTracts[i].nta_code : i \in AssignedRows(zipToTracts)}
    /\ \A i \in AssignedRows(zipToTracts) :
          \E k \in 1..Len(neighborhoodClusters) :
             /\ neighborhoodClusters[k].nta_code = zipToTracts[i].nta_code
             /\ includes(neighborhoodClusters[k].tract_geoids, zipToTracts[i].tract_geoid)
             /\ includes(neighborhoodClusters[k].zips, zipToTracts[i].zip)

\* phase 4 has clustered a crosswalk with assigned rows of two codes, two of
\* them of one code and of different ZIPs
C30_Witness ==
  /\ statuses[4] = "complete"
  /\ Cardinality({zipToTracts[i].nta_code : i \in AssignedRows(zipToTracts)}) = 2
  /\ Len(neighborhoodClusters) = 2
  /\ \E i, j \in AssignedRows(zipToTracts) :
        /\ zipToTracts[i].nta_code = zipToTracts[j].nta_code
        /\ zipToTracts[i].zip # zipToTracts[j].zip

----------------------------------------------------------------------------
(* Properties of the cache files shared by the phases *)

\* the run found nothing to use in data/raw: every download had to issue
\* requests, and the tract GeoJSON, which no step writes, is absent
StartedFromEmptyCache ==
  /\ \A s \in Sources : downloads[s].ran /\ downloads[s].requests # <<>>
  /\ ~cache.census_tiger_geojson.exists

\* each of the three downloads returned its data and saved it
AllDownloaded ==
  \A s \in Sources : ~downloads[s].threw /\ cache[s] = File(downloads[s].data)

\* C29: in a run that starts from an empty cache and whose three downloads
\* succeed, phases 2 and 3 find the files they load: neither ends in error
\* and the run does not exit with status 1.
C29_LaterPhasesFindTheirFiles ==
  (StartedFromEmptyCache /\ AllDownloaded) =>
     /\ statuses[2] # "error"
     /\ statuses[3] # "error"
     /\ exitCode # 1

----------------------------------------------------------------------------
(* Properties of the fetch *)

\* C28: phase 1 never waits forever on a download: whenever the run stands
\* in the body of phase 1, awaiting downloader.run(), the step that ends the
\* wait can be taken, also when a server sends no response.
C28_EveryFetchTerminates ==
  pc = <<"body", 1>> => ENABLED runPhase1

----------------------------------------------------------------------------
(* Properties of the validator called on rows with null weights *)

\* the rows passed to the validator with a null weight
NullWeightRows ==
  {i \in 1..Len(checkedRows) :
     checkedRows[i].weight_res = NULL \/ checkedRows[i].weight_tot = NULL}

\* row i gets no error once its null weights are replaced by 0
OtherwiseWellFormed(i) ==
  LET row == checkedRows[i]
      filled == [row EXCEPT !.weight_res = IF @ = NULL THEN 0 ELSE @,
                            !.weight_tot = IF @ = NULL THEN 0 ELSE @]
  IN  rowErrors([checkedRows EXCEPT ![i] = filled], i) = <<>>

\* C26: when the validator has returned, every otherwise well-formed row
\* with a null weight has a null_weight warning, is counted in
\* summary.null_weights and has no error; if all rows are such rows or rows
\* without fault, isValid is true.
C26_NullWeightIsOnlyAWarning ==
  validation.returned =>
    LET result == validation.result
    IN  /\ result.summary.null_weights = Cardinality(NullWeightRows)
        /\ \A i \in NullWeightRows :
              /\ \E k \in 1..Len(result.warnings) :
                    result.warnings[k].type = "null_weight" /\ result.warnings[k].location = i
              /\ OtherwiseWellFormed(i) =>
                    \A k \in 1..Len(result.errors) : result.errors[k].location # i
        /\ (\A i \in 1..Len(checkedRows) : OtherwiseWellFormed(i)) => result.isValid

----------------------------------------------------------------------------
(* Properties of the small-number suppression *)

\* the metrics whose cell count is a number below the minimum
SmallCells ==
  {m \in DOMAIN geoMetrics \cap DOMAIN geoCellCounts :
     geoCellCounts[m] # NULL /\ geoCellCounts[m] < MINIMUM_CELL_SIZE}

\* C22: once applySuppressionToGeography has returned, every metric whose
\* cell count is a number below 11, the count 0 included, is null in metrics
\* and has a decision that says suppressed, all of them counted in
\* suppressedCount; and validateSuppressionComplete on the same objects then
\* returns isValid with no violation.
C22_SuppressionComplete ==
  /\ suppression.returned =>
       /\ \A m \in SmallCells :
             geoMetrics[m] = NULL /\ suppression.result.suppressed[m].isSuppressed
       /\ suppression.result.suppressedCount >= Cardinality(SmallCells)
  /\ completeness.returned =>
       completeness.result.isValid /\ completeness.result.violations = {}

----------------------------------------------------------------------------
(* Properties of a repeated run *)

====
